---------------------------- MODULE Spec2Model ----------------------------
(***************************************************************************)
(* Model of src/main.rs: a GLFW/OpenGL program that compiles and links two *)
(* shaders, builds one VAO/VBO pair holding a triangle, and then runs a    *)
(* render loop that drains window events, uploads a time-dependent colour  *)
(* uniform and draws.  The program is single threaded; `pc` is the place   *)
(* of main() in its text.  The driver (compile/link outcomes, info logs),  *)
(* the windowing library (events, close requests) and the clock are the    *)
(* environment and are chosen nondeterministically from small sets.        *)
(***************************************************************************)
EXTENDS Integers, Sequences, FiniteSets, TLC

(* ------------------------------ bounds -------------------------------- *)
\* Largest number of events one poll_events call delivers.
MaxEvents == 2
\* Resize events carry every framebuffer size of positive width and
\* height whose sum is at most MaxDim + 1.
MaxDim == 2
\* Largest clock reading, in quarter periods of the sine (the clock
\* saturates there).
MaxTime == 5

(* ------------------------- program constants -------------------------- *)
SCR_WIDTH == 800
SCR_HEIGHT == 600
\* Capacity of the info log buffer; its length is one less.
InfoLogCap == 512
\* mem::size_of::<GLfloat>()
SizeOfGLfloat == 4
\* Clock readings are multiples of pi/2, so one period of sin is 4 ticks.
TicksPerPeriod == 4
\* Fixed-point scale of colour components: Scale stands for 1.0.
Scale == 2
\* The vertex array of main(), in tenths.
vertices == << -5, -5, 0,   5, -5, 0,   0, 5, 0 >>

VARIABLES
    pc,              \* position of main() in its text
    stdout,          \* lines printed by println!, in order
    shaders,         \* GL shader objects: handle -> record
    programs,        \* GL program objects: handle -> record
    vaos,            \* GL vertex array objects: handle -> attribute 0 state
    buffers,         \* GL buffer objects: handle -> record
    boundVAO,        \* GL_VERTEX_ARRAY_BINDING (0: none)
    boundBuffer,     \* GL_ARRAY_BUFFER_BINDING (0: none)
    currentProgram,  \* GL_CURRENT_PROGRAM (0: none)
    viewport,        \* GL_VIEWPORT <<x, y, w, h>>
    vertex_shader,   \* locals of main(); 0 before they are assigned
    fragment_shader,
    shader_program,
    vao,
    vbo,
    should_close,    \* the window's close flag
    events,          \* the window's event channel (Receiver)
    drained,         \* events process_events has taken in the running call
    time_value,      \* last clock reading
    green_value,
    vertex_color_location,
    uniformCall,     \* arguments of the last gl::Uniform4f call
    frame,           \* calls made in the running loop iteration, in order
    closeBy,         \* who first set the close flag
    drawsWhileClosing \* draw calls issued with the close flag set

vars == << pc, stdout, shaders, programs, vaos, buffers, boundVAO,
           boundBuffer, currentProgram, viewport, vertex_shader,
           fragment_shader, shader_program, vao, vbo, should_close, events,
           drained, time_value, green_value, vertex_color_location,
           uniformCall, frame, closeBy, drawsWhileClosing >>

glVars == << shaders, programs, vaos, buffers, boundVAO, boundBuffer,
             currentProgram, viewport >>
localVars == << vertex_shader, fragment_shader, shader_program, vao, vbo >>
windowVars == << should_close, events, closeBy >>
frameVars == << time_value, green_value, vertex_color_location, uniformCall >>

(* ----------------------------- info logs ------------------------------ *)
(* Bytes are modelled by their UTF-8 role: "A" an ASCII byte, "N" the NUL  *)
(* byte, "L" the lead byte of a two-byte character, "C" a continuation     *)
(* byte, "X" a byte that occurs in no UTF-8 text.                          *)

\* Info logs the driver may report for a failed compile or link: a short
\* ASCII text, a text in a non-UTF-8 encoding, and a long UTF-8 text whose
\* two-byte character straddles the end of the buffer.
ShortLog == << "A", "A", "A" >>
BadLog == << "A", "X", "A" >>
LongLog == [i \in 1..InfoLogCap |->
               IF i = InfoLogCap - 1 THEN "L"
               ELSE IF i = InfoLogCap THEN "C" ELSE "A"]
DriverLogs == {ShortLog, BadLog, LongLog}

\* What a freshly allocated, never written byte may hold.
UninitBytes == {"N", "X"}

\* Vec::with_capacity(512); set_len(511); glGet*InfoLog(obj, 512, NULL, ptr):
\* the first min(len, 511) bytes of the log, a NUL, and after it whatever
\* the allocation held.
InfoLogBuffer(log, uninit) ==
    LET n == IF Len(log) < InfoLogCap - 1 THEN Len(log) ELSE InfoLogCap - 1
    IN  [i \in 1..(InfoLogCap - 1) |->
            IF i <= n THEN log[i] ELSE IF i = n + 1 THEN "N" ELSE uninit]

\* str::from_utf8(&info_log) is Ok
ValidUtf8(buf) ==
    \A i \in 1..Len(buf) :
        /\ buf[i] # "X"
        /\ buf[i] = "L" => (i < Len(buf) /\ buf[i + 1] = "C")
        /\ buf[i] = "C" => (i > 1 /\ buf[i - 1] = "L")

\* The line println! writes in check_shader_compile_error.
CompileErrorLine(label, buf) ==
    << "ERROR: ", label, " shader compile failed\n", buf >>

\* The line println! writes in check_linking_error.
LinkErrorLine(label, buf) ==
    << "ERROR: ", label, " linkng failed\n", buf >>

(* ------------------------------- Init --------------------------------- *)
NoAttrib == [enabled |-> FALSE, size |-> 4, stride |-> 0, offset |-> 0,
             buffer |-> 0]

Init ==
    /\ pc = "init_window"
    /\ stdout = << >>
    /\ shaders = << >>
    /\ programs = << >>
    /\ vaos = << >>
    /\ buffers = << >>
    /\ boundVAO = 0
    /\ boundBuffer = 0
    /\ currentProgram = 0
    /\ viewport = << 0, 0, 0, 0 >>
    /\ vertex_shader = 0
    /\ fragment_shader = 0
    /\ shader_program = 0
    /\ vao = 0
    /\ vbo = 0
    /\ should_close = FALSE
    /\ events = << >>
    /\ drained = << >>
    /\ time_value = 0
    /\ green_value = 0
    /\ vertex_color_location = 0
    /\ uniformCall = << >>
    /\ frame = << >>
    /\ closeBy = "none"
    /\ drawsWhileClosing = 0

(* ------------------------------ setup --------------------------------- *)
\* glfw::init(..).unwrap(), create_window(..).expect(..), make_current:
\* the only failures main() treats as fatal by design.
InitWindow ==
    /\ pc = "init_window"
    /\ \E ok \in BOOLEAN :
          IF ok
          THEN /\ pc' = "compile_vertex"
               /\ viewport' = << 0, 0, SCR_WIDTH, SCR_HEIGHT >>
          ELSE /\ pc' = "panicked"
               /\ UNCHANGED viewport
    /\ UNCHANGED << stdout, shaders, programs, vaos, buffers, boundVAO,
                    boundBuffer, currentProgram, localVars, windowVars,
                    drained, frameVars, frame, drawsWhileClosing >>

\* gl::CreateShader; gl::ShaderSource; gl::CompileShader.  The handle is
\* the next free name; the driver decides the outcome and the info log.
NewShader(kind, ok, log) ==
    [kind |-> kind, compiled |-> ok, log |-> IF ok THEN << >> ELSE log,
     attached |-> FALSE, deleteCalls |-> 0]

CompileShader(at, kind, next) ==
    /\ pc = at
    /\ \E ok \in BOOLEAN, log \in DriverLogs :
          /\ (ok => log = ShortLog)
          /\ shaders' = Append(shaders, NewShader(kind, ok, log))
    /\ IF kind = "vertex"
       THEN vertex_shader' = Len(shaders) + 1 /\ UNCHANGED fragment_shader
       ELSE fragment_shader' = Len(shaders) + 1 /\ UNCHANGED vertex_shader
    /\ pc' = next
    /\ UNCHANGED << stdout, programs, vaos, buffers, boundVAO, boundBuffer,
                    currentProgram, viewport, shader_program, vao, vbo,
                    windowVars, drained, frameVars, frame,
                    drawsWhileClosing >>

CompileVertex == CompileShader("compile_vertex", "vertex", "check_vertex")
CompileFragment ==
    CompileShader("compile_fragment", "fragment", "check_fragment")

\* check_shader_compile_error(label, shader): prints nothing on success;
\* on failure reads the info log into a 511-byte buffer and prints it,
\* panicking in unwrap() when the buffer is not UTF-8.
check_shader_compile_error(at, label, shader, next) ==
    /\ pc = at
    /\ IF shaders[shader].compiled
       THEN pc' = next /\ UNCHANGED stdout
       ELSE \E uninit \in UninitBytes :
               LET buf == InfoLogBuffer(shaders[shader].log, uninit)
               IN  IF ValidUtf8(buf)
                   THEN /\ stdout' = Append(stdout,
                                            CompileErrorLine(label, buf))
                        /\ pc' = next
                   ELSE /\ pc' = "panicked"
                        /\ UNCHANGED stdout
    /\ UNCHANGED << glVars, localVars, windowVars, drained, frameVars,
                    frame, drawsWhileClosing >>

CheckVertex ==
    check_shader_compile_error("check_vertex", "vertex", vertex_shader,
                               "compile_fragment")
CheckFragment ==
    check_shader_compile_error("check_fragment", "fragment",
                               fragment_shader, "link")

\* gl::CreateProgram; gl::AttachShader x2; gl::LinkProgram.  Programs and
\* shaders share one name space, so the program's handle follows the
\* shaders'.
LinkShaders ==
    /\ pc = "link"
    /\ \E ok \in BOOLEAN, log \in DriverLogs :
          /\ (ok => log = ShortLog)
          /\ programs' =
                [h \in {Len(shaders) + 1} |->
                    [attached |-> {vertex_shader, fragment_shader},
                     linked |-> ok,
                     log |-> IF ok THEN << >> ELSE log,
                     ourColor |-> << 0, 0, 0, 0 >>]]
    /\ shader_program' = Len(shaders) + 1
    /\ shaders' = [h \in DOMAIN shaders |->
                      IF h \in {vertex_shader, fragment_shader}
                      THEN [shaders[h] EXCEPT !.attached = TRUE]
                      ELSE shaders[h]]
    /\ pc' = "check_link"
    /\ UNCHANGED << stdout, vaos, buffers, boundVAO, boundBuffer,
                    currentProgram, viewport, vertex_shader,
                    fragment_shader, vao, vbo, windowVars, drained,
                    frameVars, frame, drawsWhileClosing >>

\* check_linking_error("link", shader_program)
check_linking_error(at, label, program, next) ==
    /\ pc = at
    /\ IF programs[program].linked
       THEN pc' = next /\ UNCHANGED stdout
       ELSE \E uninit \in UninitBytes :
               LET buf == InfoLogBuffer(programs[program].log, uninit)
               IN  IF ValidUtf8(buf)
                   THEN /\ stdout' = Append(stdout,
                                            LinkErrorLine(label, buf))
                        /\ pc' = next
                   ELSE /\ pc' = "panicked"
                        /\ UNCHANGED stdout
    /\ UNCHANGED << glVars, localVars, windowVars, drained, frameVars,
                    frame, drawsWhileClosing >>

CheckLink ==
    check_linking_error("check_link", "link", shader_program,
                        "delete_vertex")

\* gl::DeleteShader(shader): an attached shader is flagged for deletion
\* and stays attached; the call is counted per handle.
DeleteShader(at, shader, next) ==
    /\ pc = at
    /\ shaders' = [shaders EXCEPT ![shader].deleteCalls = @ + 1]
    /\ pc' = next
    /\ UNCHANGED << stdout, programs, vaos, buffers, boundVAO, boundBuffer,
                    currentProgram, viewport, localVars, windowVars,
                    drained, frameVars, frame, drawsWhileClosing >>

DeleteVertex == DeleteShader("delete_vertex", vertex_shader,
                             "delete_fragment")
DeleteFragment == DeleteShader("delete_fragment", fragment_shader,
                               "gen_objects")

(* ---------------------------- geometry -------------------------------- *)
\* Mutant: the buffer is unbound before the attribute is declared.
BuildOrder_UnbindsBeforePointer ==
    << "gen_objects", "bind_vao", "bind_vbo", "buffer_data", "unbind_vbo",
       "attrib_pointer", "enable_attrib", "unbind_vao" >>

\* The statements of the block that builds the VAO, in program order.
BuildOrder ==
    << "gen_objects", "bind_vao", "bind_vbo", "buffer_data",
       "attrib_pointer", "enable_attrib", "unbind_vbo", "unbind_vao" >>

\* Mutant: the triangle is drawn before the uniform is uploaded.
LoopOrder_DrawsBeforeUpload ==
    << "process_events", "clear", "use_program", "bind_vertex_array",
       "get_time", "get_uniform_location", "draw_arrays", "uniform4f",
       "swap_buffers", "poll_events" >>

\* The statements of the render loop's body, in program order.
LoopOrder ==
    << "process_events", "clear", "use_program", "bind_vertex_array",
       "get_time", "get_uniform_location", "uniform4f", "draw_arrays",
       "swap_buffers", "poll_events" >>

\* The statement after `p` in `order`; `last` after the final one.
After(order, p, last) ==
    LET i == CHOOSE k \in 1..Len(order) : order[k] = p
    IN  IF i = Len(order) THEN last ELSE order[i + 1]

AfterBuild(p) == After(BuildOrder, p, "loop_head")
AfterLoop(p) == After(LoopOrder, p, "loop_head")

\* gl::GenVertexArrays(1, &mut vao); gl::GenBuffers(1, &mut vbo)
GenObjects ==
    /\ pc = "gen_objects"
    /\ vaos' = Append(vaos, NoAttrib)
    /\ buffers' = Append(buffers, [data |-> << >>, size |-> 0,
                                   usage |-> "none"])
    /\ vao' = Len(vaos) + 1
    /\ vbo' = Len(buffers) + 1
    /\ pc' = AfterBuild("gen_objects")
    /\ UNCHANGED << stdout, shaders, programs, boundVAO, boundBuffer,
                    currentProgram, viewport, vertex_shader,
                    fragment_shader, shader_program, windowVars, drained,
                    frameVars, frame, drawsWhileClosing >>

\* gl::BindVertexArray(array) at statement `at`
BindVertexArray(at, array, next) ==
    /\ pc = at
    /\ boundVAO' = array
    /\ pc' = next
    /\ UNCHANGED << stdout, shaders, programs, vaos, buffers, boundBuffer,
                    currentProgram, viewport, localVars, windowVars,
                    drained, frameVars, drawsWhileClosing >>

\* gl::BindBuffer(gl::ARRAY_BUFFER, buffer) at statement `at`
BindBuffer(at, buffer, next) ==
    /\ pc = at
    /\ boundBuffer' = buffer
    /\ pc' = next
    /\ UNCHANGED << stdout, shaders, programs, vaos, buffers, boundVAO,
                    currentProgram, viewport, localVars, windowVars,
                    drained, frameVars, frame, drawsWhileClosing >>

BuildBindVAO ==
    /\ BindVertexArray("bind_vao", vao, AfterBuild("bind_vao"))
    /\ UNCHANGED frame
BuildBindVBO == BindBuffer("bind_vbo", vbo, AfterBuild("bind_vbo"))

\* gl::BufferData(gl::ARRAY_BUFFER, 9 * 4, &vertices[0], gl::STATIC_DRAW):
\* fills the buffer bound to the target; an error and no effect if none is.
BufferData ==
    /\ pc = "buffer_data"
    /\ buffers' = IF boundBuffer = 0 THEN buffers
                  ELSE [buffers EXCEPT ![boundBuffer] =
                           [data |-> vertices,
                            size |-> Len(vertices) * SizeOfGLfloat,
                            usage |-> "STATIC_DRAW"]]
    /\ pc' = AfterBuild("buffer_data")
    /\ UNCHANGED << stdout, shaders, programs, vaos, boundVAO, boundBuffer,
                    currentProgram, viewport, localVars, windowVars,
                    drained, frameVars, frame, drawsWhileClosing >>

\* gl::VertexAttribPointer(0, 3, gl::FLOAT, gl::FALSE, 3 * 4, null): stores
\* the layout and the buffer now bound to GL_ARRAY_BUFFER in attribute 0 of
\* the bound VAO; an error and no effect when no VAO is bound.
VertexAttribPointer ==
    /\ pc = "attrib_pointer"
    /\ vaos' = IF boundVAO = 0 THEN vaos
               ELSE [vaos EXCEPT ![boundVAO] =
                        [@ EXCEPT !.size = 3,
                                  !.stride = 3 * SizeOfGLfloat,
                                  !.offset = 0,
                                  !.buffer = boundBuffer]]
    /\ pc' = AfterBuild("attrib_pointer")
    /\ UNCHANGED << stdout, shaders, programs, buffers, boundVAO,
                    boundBuffer, currentProgram, viewport, localVars,
                    windowVars, drained, frameVars, frame,
                    drawsWhileClosing >>

\* gl::EnableVertexAttribArray(0)
EnableVertexAttribArray ==
    /\ pc = "enable_attrib"
    /\ vaos' = IF boundVAO = 0 THEN vaos
               ELSE [vaos EXCEPT ![boundVAO].enabled = TRUE]
    /\ pc' = AfterBuild("enable_attrib")
    /\ UNCHANGED << stdout, shaders, programs, buffers, boundVAO,
                    boundBuffer, currentProgram, viewport, localVars,
                    windowVars, drained, frameVars, frame,
                    drawsWhileClosing >>

BuildUnbindVBO == BindBuffer("unbind_vbo", 0, AfterBuild("unbind_vbo"))
BuildUnbindVAO ==
    /\ BindVertexArray("unbind_vao", 0, AfterBuild("unbind_vao"))
    /\ UNCHANGED frame

(* ------------------------------ events -------------------------------- *)
Keys == {"Escape", "A"}
Actions == {"Press", "Release"}

\* Only key and framebuffer-size polling are switched on, so these are the
\* events the channel carries.
KeyEvents ==
    {[type |-> "Key", key |-> k, action |-> a] :
        k \in Keys, a \in Actions}
ResizeEvents ==
    {e \in {[type |-> "FramebufferSize", width |-> w, height |-> h] :
                w \in 1..MaxDim, h \in 1..MaxDim} :
        e.width + e.height <= MaxDim + 1}
WindowEvents ==
    ResizeEvents \cup
    {e \in KeyEvents : e.key = "Escape" \/ e.action = "Press"}

RECURSIVE SeqsUpTo(_, _)
SeqsUpTo(S, n) ==
    IF n = 0 THEN {<< >>}
    ELSE LET shorter == SeqsUpTo(S, n - 1)
         IN  shorter \cup {Append(s, e) : s \in shorter, e \in S}

\* Mutant: width and height change places.
ViewportAfter_Swapped(vp, e) ==
    IF e.type = "FramebufferSize"
    THEN << 0, 0, e.height, e.width >>
    ELSE vp

\* The match of process_events: what one event does to the viewport ...
ViewportAfter(vp, e) ==
    IF e.type = "FramebufferSize"
    THEN << 0, 0, e.width, e.height >>
    ELSE vp

\* Mutant: the flag follows the Escape key, so a release clears it.
ShouldCloseAfter_FollowsKey(close, e) ==
    IF e.type = "Key" /\ e.key = "Escape"
    THEN e.action = "Press"
    ELSE close

\* ... and to the close flag.
ShouldCloseAfter(close, e) ==
    IF e.type = "Key" /\ e.key = "Escape" /\ e.action = "Press"
    THEN TRUE
    ELSE close

(* ---------------------------- render loop ----------------------------- *)
\* Mutant: the loop condition without its negation.
LoopHead_Inverted ==
    /\ pc = "loop_head"
    /\ IF ~should_close
       THEN pc' = "exit" /\ UNCHANGED frame
       ELSE pc' = "process_events" /\ frame' = << >>
    /\ UNCHANGED << stdout, shaders, programs, vaos, buffers, boundVAO,
                    boundBuffer, currentProgram, viewport, vertex_shader,
                    fragment_shader, shader_program, vao, vbo,
                    should_close, events, closeBy, drained, time_value,
                    green_value, vertex_color_location, uniformCall,
                    drawsWhileClosing >>

\* while !window.should_close()
LoopHead ==
    /\ pc = "loop_head"
    /\ IF should_close
       THEN pc' = "exit" /\ UNCHANGED frame
       ELSE pc' = LoopOrder[1] /\ frame' = << >>
    /\ UNCHANGED << stdout, glVars, localVars, windowVars, drained,
                    frameVars, drawsWhileClosing >>

\* One turn of the for loop of process_events: take the oldest message of
\* the channel and match it.
ProcessEvent ==
    /\ pc = "process_events"
    /\ events # << >>
    /\ LET e == Head(events)
       IN  /\ events' = Tail(events)
           /\ drained' = Append(drained, e)
           /\ viewport' = ViewportAfter(viewport, e)
           /\ should_close' = ShouldCloseAfter(should_close, e)
           /\ closeBy' = IF ~should_close /\ should_close'
                         THEN "escape" ELSE closeBy
    /\ UNCHANGED << pc, stdout, shaders, programs, vaos, buffers, boundVAO,
                    boundBuffer, currentProgram, localVars, frameVars,
                    frame, drawsWhileClosing >>

\* Mutant: the loop is left right after a drain that set the close flag.
AfterProcessEvents_Breaks(close) ==
    IF close THEN "exit" ELSE AfterLoop("process_events")

\* Where main() goes on when process_events returns.
AfterProcessEvents(close) == AfterLoop("process_events")

\* The channel is empty: flush_messages ends and process_events returns.
ProcessEventsReturn ==
    /\ pc = "process_events"
    /\ events = << >>
    /\ drained' = << >>
    /\ frame' = Append(frame, "process_events")
    /\ pc' = AfterProcessEvents(should_close)
    /\ UNCHANGED << stdout, glVars, localVars, windowVars, frameVars,
                    drawsWhileClosing >>

\* gl::ClearColor(0.2, 0.3, 0.3, 1.0); gl::Clear(gl::COLOR_BUFFER_BIT)
Clear ==
    /\ pc = "clear"
    /\ frame' = Append(frame, "clear")
    /\ pc' = AfterLoop("clear")
    /\ UNCHANGED << stdout, glVars, localVars, windowVars, drained,
                    frameVars, drawsWhileClosing >>

\* gl::UseProgram(shader_program): an error and no effect for a program
\* that is not linked.
UseProgram ==
    /\ pc = "use_program"
    /\ currentProgram' = IF programs[shader_program].linked
                         THEN shader_program ELSE currentProgram
    /\ frame' = Append(frame, "use_program")
    /\ pc' = AfterLoop("use_program")
    /\ UNCHANGED << stdout, shaders, programs, vaos, buffers, boundVAO,
                    boundBuffer, viewport, localVars, windowVars, drained,
                    frameVars, drawsWhileClosing >>

\* Mutant: every frame makes a fresh VAO and binds that.
LoopBindVAO_Regenerates ==
    /\ pc = "bind_vertex_array"
    /\ vaos' = Append(vaos, NoAttrib)
    /\ vao' = Len(vaos) + 1
    /\ boundVAO' = Len(vaos) + 1
    /\ frame' = Append(frame, "bind_vertex_array")
    /\ pc' = AfterLoop("bind_vertex_array")
    /\ UNCHANGED << stdout, shaders, programs, buffers, boundBuffer,
                    currentProgram, viewport, vertex_shader,
                    fragment_shader, shader_program, vbo, windowVars,
                    drained, frameVars, drawsWhileClosing >>

\* gl::BindVertexArray(vao) of the loop
LoopBindVAO ==
    /\ BindVertexArray("bind_vertex_array", vao,
                       AfterLoop("bind_vertex_array"))
    /\ frame' = Append(frame, "bind_vertex_array")

\* sin of a clock reading t (in quarter periods), times Scale.
Sin(t) ==
    CASE t % TicksPerPeriod = 0 -> 0
      [] t % TicksPerPeriod = 1 -> Scale
      [] t % TicksPerPeriod = 2 -> 0
      [] t % TicksPerPeriod = 3 -> -Scale

\* Mutant: the offset of 0.5 is left out.
GreenValue_NoOffset(t) == Sin(t) \div 2

\* time_value.sin() / 2.0 + 0.5
GreenValue(t) == (Sin(t) \div 2) + (Scale \div 2)

\* let time_value = glfw.get_time() as f32; let green_value = ...
\* The clock is monotonic: it reads no less than the reading before.
GetTime ==
    /\ pc = "get_time"
    /\ \E t \in time_value..MaxTime :
          /\ time_value' = t
          /\ green_value' = GreenValue(t)
    /\ frame' = Append(frame, "get_time")
    /\ pc' = AfterLoop("get_time")
    /\ UNCHANGED << stdout, glVars, localVars, windowVars, drained,
                    vertex_color_location, uniformCall, drawsWhileClosing >>

\* gl::GetUniformLocation(program, "ourColor"): -1 unless the program is
\* linked, in which case ourColor is its one active uniform.
UniformLocation(program) == IF programs[program].linked THEN 0 ELSE -1

GetUniformLocation ==
    /\ pc = "get_uniform_location"
    /\ vertex_color_location' = UniformLocation(shader_program)
    /\ frame' = Append(frame, "get_uniform_location")
    /\ pc' = AfterLoop("get_uniform_location")
    /\ UNCHANGED << stdout, glVars, localVars, windowVars, drained,
                    time_value, green_value, uniformCall,
                    drawsWhileClosing >>

\* The vector handed to gl::Uniform4f.
OurColor(green) == << 0, green, 0, Scale >>

\* gl::Uniform4f(vertex_color_location, 0.0, green_value, 0.0, 1.0), with
\* no test of the location; the driver ignores location -1.
Uniform4f ==
    /\ pc = "uniform4f"
    /\ uniformCall' = << vertex_color_location, OurColor(green_value) >>
    /\ programs' =
          IF vertex_color_location # -1 /\ currentProgram # 0
          THEN [programs EXCEPT
                   ![currentProgram].ourColor = OurColor(green_value)]
          ELSE programs
    /\ frame' = Append(frame, "uniform4f")
    /\ pc' = AfterLoop("uniform4f")
    /\ UNCHANGED << stdout, shaders, vaos, buffers, boundVAO, boundBuffer,
                    currentProgram, viewport, localVars, windowVars,
                    drained, time_value, green_value,
                    vertex_color_location, drawsWhileClosing >>

\* gl::DrawArrays(gl::TRIANGLES, 0, 3)
DrawArrays ==
    /\ pc = "draw_arrays"
    /\ frame' = Append(frame, "draw_arrays")
    /\ drawsWhileClosing' = IF should_close THEN drawsWhileClosing + 1
                            ELSE drawsWhileClosing
    /\ pc' = AfterLoop("draw_arrays")
    /\ UNCHANGED << stdout, glVars, localVars, windowVars, drained,
                    frameVars >>

\* window.swap_buffers()
SwapBuffers ==
    /\ pc = "swap_buffers"
    /\ frame' = Append(frame, "swap_buffers")
    /\ pc' = AfterLoop("swap_buffers")
    /\ UNCHANGED << stdout, glVars, localVars, windowVars, drained,
                    frameVars, drawsWhileClosing >>

\* glfw.poll_events(): the windowing library puts the pending events on
\* the channel and may set the close flag (the user closed the window); it
\* never clears the flag.
PollEvents ==
    /\ pc = "poll_events"
    /\ \E new \in SeqsUpTo(WindowEvents, MaxEvents), close \in BOOLEAN :
          /\ events' = events \o new
          /\ should_close' = (should_close \/ close)
          /\ closeBy' = IF ~should_close /\ close
                        THEN "collaborator" ELSE closeBy
    /\ frame' = Append(frame, "poll_events")
    /\ pc' = AfterLoop("poll_events")
    /\ UNCHANGED << stdout, glVars, localVars, drained, frameVars,
                    drawsWhileClosing >>

(* ------------------------- the specification -------------------------- *)
Next ==
    \/ InitWindow
    \/ CompileVertex
    \/ CheckVertex
    \/ CompileFragment
    \/ CheckFragment
    \/ LinkShaders
    \/ CheckLink
    \/ DeleteVertex
    \/ DeleteFragment
    \/ GenObjects
    \/ BuildBindVAO
    \/ BuildBindVBO
    \/ BufferData
    \/ VertexAttribPointer
    \/ EnableVertexAttribArray
    \/ BuildUnbindVBO
    \/ BuildUnbindVAO
    \/ LoopHead
    \/ ProcessEvent
    \/ ProcessEventsReturn
    \/ Clear
    \/ UseProgram
    \/ LoopBindVAO
    \/ GetTime
    \/ GetUniformLocation
    \/ Uniform4f
    \/ DrawArrays
    \/ SwapBuffers
    \/ PollEvents

Spec == Init /\ [][Next]_vars

(* ------------------------ places of main() ---------------------------- *)
SetupOrder ==
    << "init_window", "compile_vertex", "check_vertex", "compile_fragment",
       "check_fragment", "link", "check_link", "delete_vertex",
       "delete_fragment" >>

ProgramOrder == SetupOrder \o BuildOrder \o << "loop_head" >> \o LoopOrder
                \o << "exit" >>

Place(p) == CHOOSE k \in 1..Len(ProgramOrder) : ProgramOrder[k] = p

\* main() has not panicked and has gone past statement p.
Past(p) == pc # "panicked" /\ Place(pc) > Place(p)

InLoopBody == \E k \in 1..Len(LoopOrder) : LoopOrder[k] = pc
InLoop == pc = "loop_head" \/ InLoopBody

EscapePress == [type |-> "Key", key |-> "Escape", action |-> "Press"]
EscapeRelease == [type |-> "Key", key |-> "Escape", action |-> "Release"]
Resize(w, h) == [type |-> "FramebufferSize", width |-> w, height |-> h]

(* ------------------------------- C1 ----------------------------------- *)
\* C1: a drained Escape press leaves the close flag set, and no step -- no
\* later event drained by process_events in particular -- clears the flag
\* once it is set.
C1_CloseIsLatched ==
    [][ /\ (pc = "process_events" /\ events # << >>
              /\ Head(events) = EscapePress) => should_close'
        /\ should_close => should_close' ]_vars

\* An Escape press was drained and a later event was drained after it.
C1_Witness ==
    /\ pc = "process_events"
    /\ Len(drained) = 2
    /\ drained[1] = EscapePress
    /\ drained[2] = EscapeRelease
    /\ should_close
    /\ closeBy = "escape"

(* ------------------------------- C2 ----------------------------------- *)
ResizeIndexes(s) == {i \in 1..Len(s) : s[i].type = "FramebufferSize"}
LastResize(s) ==
    s[CHOOSE i \in ResizeIndexes(s) : \A j \in ResizeIndexes(s) : j <= i]

\* C2: while process_events runs, the viewport is (0,0,w,h) of the last
\* resize event it has taken, and it takes the events in the order in
\* which they were delivered (events taken, then events pending, is always
\* the batch that was delivered).
C2_ViewportFollowsResize ==
    /\ [](pc = "process_events" /\ ResizeIndexes(drained) # {}
            => viewport = << 0, 0, LastResize(drained).width,
                             LastResize(drained).height >>)
    /\ [][pc = "process_events" /\ pc' = "process_events"
            => drained' \o events' = drained \o events]_vars

\* Two resize events drained in one call, the last of them 1x1.
C2_Witness ==
    /\ pc = "process_events"
    /\ events = << >>
    /\ drained = << Resize(2, 1), Resize(1, 1) >>
    /\ viewport = << 0, 0, 1, 1 >>

(* ------------------------------- C3 ----------------------------------- *)
DiagnosticsOf(label) == {i \in 1..Len(stdout) : stdout[i][2] = label}

\* C3: a compile or link failure never ends the process (only the window
\* setup may), and once a step has been checked there is exactly one
\* diagnostic with its label if it failed and none if it succeeded.
C3_LogAndContinue ==
    /\ pc = "panicked" => shaders = << >>
    /\ Past("check_vertex") =>
          Cardinality(DiagnosticsOf("vertex")) =
             IF shaders[vertex_shader].compiled THEN 0 ELSE 1
    /\ Past("check_fragment") =>
          Cardinality(DiagnosticsOf("fragment")) =
             IF shaders[fragment_shader].compiled THEN 0 ELSE 1
    /\ Past("check_link") =>
          Cardinality(DiagnosticsOf("link")) =
             IF programs[shader_program].linked THEN 0 ELSE 1

(* ------------------------------- C4 ----------------------------------- *)
\* C4: every shader handle is deleted at most once and only after it was
\* attached and the link attempted; both are deleted when the loop starts;
\* and a process that attempted the link, whatever its outcome, has
\* deleted both handles once when it ends.
C4_ShadersReleased ==
    /\ \A h \in DOMAIN shaders :
          /\ shaders[h].deleteCalls <= 1
          /\ shaders[h].deleteCalls = 1 =>
                /\ shaders[h].attached
                /\ shader_program # 0
                /\ h \in programs[shader_program].attached
    /\ Past("delete_fragment") =>
          /\ Len(shaders) = 2
          /\ \A h \in DOMAIN shaders : shaders[h].deleteCalls = 1
    /\ pc \in {"exit", "panicked"} /\ shader_program # 0 =>
          \A h \in DOMAIN shaders : shaders[h].deleteCalls = 1

(* ------------------------------- C5 ----------------------------------- *)
\* An upper bound on the steps main() still takes once the close flag is
\* set: the events left to drain, the statements left in the loop body,
\* the test at the head of the loop.
StepsToExit ==
    IF pc = "exit" THEN 0
    ELSE IF pc = "loop_head" THEN 1
    ELSE 2 + (Place("poll_events") - Place(pc)) + Len(events)

\* C5: the loop is left only with the close flag set; with the flag set no
\* new iteration begins; no statement of the loop panics; and once the
\* flag is set the process reaches its normal exit: as long as it has not,
\* a step is possible (the swap and poll calls return) and every step
\* brings the exit nearer.
C5_LoopTerminates ==
    /\ [](pc = "exit" => should_close)
    /\ [][ /\ (pc = "loop_head" /\ should_close) => pc' = "exit"
           /\ InLoop => pc' # "panicked" ]_vars
    /\ [](should_close /\ pc # "exit" => InLoop /\ ENABLED Next)
    /\ [][should_close /\ pc # "exit"
            => StepsToExit' < StepsToExit /\ StepsToExit' >= 0]_vars

C5_Witness == pc = "exit" /\ should_close

(* ------------------------------- C6 ----------------------------------- *)
\* C6: from the first test of the loop condition on there is exactly one
\* VAO, one buffer and one program, they are the ones the locals of main()
\* name, and no step of the loop creates, reallocates or destroys one.
C6_OneOfEach ==
    /\ [](InLoop \/ pc = "exit" =>
            /\ Len(vaos) = 1 /\ Len(buffers) = 1
            /\ Cardinality(DOMAIN programs) = 1
            /\ vao \in DOMAIN vaos /\ vbo \in DOMAIN buffers
            /\ shader_program \in DOMAIN programs)
    /\ [][InLoop => /\ vaos' = vaos
                    /\ buffers' = buffers
                    /\ DOMAIN programs' = DOMAIN programs
                    /\ << vao', vbo', shader_program' >>
                          = << vao, vbo, shader_program >>]_vars
    /\ [](pc = "draw_arrays" =>
            /\ boundVAO = vao
            /\ currentProgram \in {0, shader_program})

C6_Witness ==
    /\ pc = "draw_arrays"
    /\ Len(frame) > 0
    /\ boundVAO = vao
    /\ currentProgram = shader_program
    /\ time_value > 0

(* ------------------------------- C7 ----------------------------------- *)
\* C7: the VAO is bound when the buffer gets bound, both are bound when
\* attribute 0 is declared, and from the end of the build on attribute 0
\* of the VAO is enabled with 3 components, a stride of 3 floats, offset 0
\* and the buffer holding the 9 floats, while at a draw call the VAO is
\* bound and no buffer is bound to the array-buffer target.
C7_AttributeLayout ==
    /\ pc = "bind_vbo" => boundVAO = vao /\ boundBuffer = 0
    /\ pc = "attrib_pointer" => boundVAO = vao /\ boundBuffer = vbo
    /\ InLoop \/ pc = "exit" =>
          /\ vaos[vao] = [enabled |-> TRUE, size |-> 3,
                          stride |-> 3 * SizeOfGLfloat, offset |-> 0,
                          buffer |-> vbo]
          /\ Len(buffers[vbo].data) = 9
          /\ buffers[vbo].data = vertices
    /\ pc = "loop_head" /\ frame = << >> => boundVAO = 0 /\ boundBuffer = 0
    /\ pc = "draw_arrays" => boundVAO = vao /\ boundBuffer = 0

C7_Witness ==
    /\ pc = "draw_arrays"
    /\ boundBuffer = 0
    /\ vaos[vao].buffer = vbo
    /\ vaos[vao].enabled
    /\ buffers[vbo].usage = "STATIC_DRAW"

(* ------------------------------- C8 ----------------------------------- *)
\* sin(t)/2 + 0.5 at the quarter periods, as a multiple of 1/Scale: 0.5, 1,
\* 0.5, 0, and again from the start after every full period.
ExpectedGreen(t) ==
    CASE t % TicksPerPeriod = 0 -> 1
      [] t % TicksPerPeriod = 1 -> 2
      [] t % TicksPerPeriod = 2 -> 1
      [] t % TicksPerPeriod = 3 -> 0

ExpectedFrame ==
    << "process_events", "clear", "use_program", "bind_vertex_array",
       "get_time", "get_uniform_location", "uniform4f", "draw_arrays",
       "swap_buffers", "poll_events" >>

\* C9: the calls of an iteration are made once each in the order drain,
\* clear, use program, bind VAO, read clock, look up "ourColor", upload,
\* draw, swap, poll; the upload is made with whatever location the lookup
\* gave; inside the loop the viewport changes only in the drain and the
\* close flag only in the drain or in the collaborator's poll.
C9_FrameOrder ==
    /\ [](InLoopBody =>
            /\ frame = SubSeq(ExpectedFrame, 1, Len(frame))
            /\ Len(frame) < Len(ExpectedFrame)
            /\ pc = ExpectedFrame[Len(frame) + 1])
    /\ [](pc \in {"loop_head", "exit"} /\ frame # << >>
            => frame = ExpectedFrame)
    /\ [](pc = "draw_arrays" =>
            uniformCall[1] = vertex_color_location)
    /\ [][InLoop /\ viewport' # viewport => pc = "process_events"]_vars
    /\ [][InLoop /\ should_close' # should_close
            => pc \in {"process_events", "poll_events"}]_vars

\* A whole iteration was made with the uniform not found.
C9_Witness ==
    /\ pc = "loop_head"
    /\ frame = ExpectedFrame
    /\ uniformCall[1] = -1

(* ------------------------------- C10 ---------------------------------- *)
\* C10: the loop is left only from its head; a drain goes on to the end of
\* the channel and then to the clear, whatever the close flag is; so a run
\* closed by a drained Escape press draws exactly once with the flag set,
\* and a run closed by the collaborator's poll draws no more.
C10_CloseTestedAtHead ==
    /\ [][pc' = "exit" => pc \in {"loop_head", "exit"}]_vars
    /\ [][pc = "process_events" =>
             IF events # << >>
             THEN /\ pc' = "process_events"
                  /\ events' = Tail(events)
                  /\ Head(events).type = "FramebufferSize" =>
                        viewport' = << 0, 0, Head(events).width,
                                       Head(events).height >>
             ELSE pc' = "clear"]_vars
    /\ [](pc = "exit" =>
            /\ closeBy = "escape" => drawsWhileClosing = 1
            /\ closeBy = "collaborator" => drawsWhileClosing = 0)
    /\ [](drawsWhileClosing <= 1)

\* The loop ended on an Escape press after exactly one more frame, with
\* the viewport as a drained resize event set it.
C10_Witness ==
    /\ pc = "exit"
    /\ closeBy = "escape"
    /\ drawsWhileClosing = 1
    /\ viewport = << 0, 0, 1, 2 >>

=============================================================================
